---- MODULE Spec2Model ----
(***************************************************************************)
(* A model of NeovimInstance (browser/src/neovim/NeovimInstance.ts): the   *)
(* start/attach chain, the geometry coordinator, the notification handler  *)
(* (redraw interpreter and plugin-notification router), the buffer         *)
(* synchronizer and the scroll debounce.                                   *)
(*                                                                         *)
(* Every handler of the class is one atomic action: JavaScript runs a      *)
(* handler to completion, and the continuations of a settled promise run   *)
(* as microtasks before the next handler.  An await is a suspension point: *)
(* the code after it is the action that settles the awaited request.       *)
(***************************************************************************)
EXTENDS Integers, Sequences, FiniteSets, TLC

VARIABLES
    initPromise,          \* _initPromise: "undefined", "pending", "resolved", "rejected"
    startPc,              \* position of start()'s promise chain
    neovim,               \* TRUE once _neovim is set and the session handlers are registered
    isLeaving,            \* _isLeaving
    fontWidthInPixels,    \* _fontWidthInPixels (Undefined until setFont)
    fontHeightInPixels,   \* _fontHeightInPixels
    lastWidthInPixels,    \* _lastWidthInPixels
    lastHeightInPixels,   \* _lastHeightInPixels
    rows,                 \* _rows
    cols,                 \* _cols
    fixedSize,            \* configuration value "debug.fixedSize"
    thenQueue,            \* callbacks registered on _initPromise while it is pending
    requests,             \* every request handed to the session transport, in order
    emitted,              \* everything the instance emitted or dispatched, in order
    notifs,               \* the notifications delivered by the transport, in order
    pendingScrollTimeout, \* _pendingScrollTimeout: 0 is null, else the timer handle
    scrollTimers,         \* scroll timer callbacks scheduled and not yet run
    disconnected,         \* 0, or 1 + the notifications delivered before "disconnect"
    version,              \* the version triple last classified
    startupOptions,       \* the result of classifying it
    geomOps,              \* number of resize/setFont calls made so far
    lastResize            \* what the most recent resize() call did

vars == <<initPromise, startPc, neovim, isLeaving, fontWidthInPixels,
          fontHeightInPixels, lastWidthInPixels, lastHeightInPixels, rows, cols,
          fixedSize, thenQueue, requests, emitted, notifs, pendingScrollTimeout,
          scrollTimers, disconnected, version, startupOptions, geomOps, lastResize>>

lifecycleVars == <<initPromise, startPc, neovim>>
geometryVars == <<fontWidthInPixels, fontHeightInPixels, lastWidthInPixels,
                  lastHeightInPixels, rows, cols, geomOps, lastResize>>
versionVars == <<version, startupOptions>>
notifyVars == <<isLeaving, notifs, pendingScrollTimeout, scrollTimers, disconnected>>

----------------------------------------------------------------------------
(* Bounds of the model. *)

MaxVer == 5        \* version components range over 0..MaxVer
MaxPx == 3         \* pixel sizes range over 1..MaxPx
MaxFont == 2       \* font metrics range over 1..MaxFont
MaxGeomOps == 2    \* resize/setFont calls per behaviour
MaxItems == 2      \* transport events per behaviour, a redraw counting once per command
MaxArg == 2        \* argument tuples per command; values of the notification arguments

(* A number that is undefined or NaN: an unset field, or Math.floor of a   *)
(* division by an unset font metric.                                       *)
NaN == -1

Versions == (0..MaxVer) \X (0..MaxVer) \X (0..MaxVer)
Pixels == 1..MaxPx
FontMetrics == 1..MaxFont

----------------------------------------------------------------------------
(* Attach negotiation. *)

Unsupported == {"UnsupportedVersion"}

GetStartupOptionsAnyPatch(major, minor, patch) ==
    IF major >= 0 /\ minor >= 2 /\ patch >= 0
    THEN {"rgb", "popupmenu_external", "ext_tabline"}
    ELSE IF major = 0 /\ minor = 2
         THEN {"rgb", "popupmenu_external"}
         ELSE Unsupported

GetStartupOptionsForVersion(major, minor, patch) ==
    IF major >= 0 /\ minor >= 2 /\ patch >= 1
    THEN {"rgb", "popupmenu_external", "ext_tabline"}
    ELSE IF major = 0 /\ minor = 2
         THEN {"rgb", "popupmenu_external"}
         ELSE Unsupported

----------------------------------------------------------------------------
(* Log entries. *)

(* One emission: the channel (the emitter event name or the typed event),   *)
(* the kind of action or error, the notification and the command of its    *)
(* payload that caused it (0 when there is none), and the arguments.       *)
Emit(ch, type, n, i, val) == [ch |-> ch, type |-> type, n |-> n, i |-> i, val |-> val]

NoContext == [bufferNumber |-> 0]

(* A request handed to the transport: src names the code that awaits it,   *)
(* n the notification that caused it, ctx the context its continuation     *)
(* captured, result what the transport answered (where the model reads it). *)
RequestWith(method, args, src, n, ctx) ==
    [method |-> method, args |-> args, status |-> "pending", src |-> src, n |-> n,
     ctx |-> ctx, result |-> <<>>]

Request(method, args, src, n) == RequestWith(method, args, src, n, NoContext)

Settle(k, status) == [requests EXCEPT ![k].status = status]

SettleWith(k, status, result) ==
    [requests EXCEPT ![k].status = status, ![k].result = result]

IsPending(k, src) ==
    /\ k \in 1..Len(requests)
    /\ requests[k].status = "pending"
    /\ requests[k].src = src

OnError(err, n) == Emit("onError", err, n, 0, <<>>)

----------------------------------------------------------------------------
(* Geometry. *)

Floor(a, b) == IF a = NaN \/ b = NaN THEN NaN ELSE a \div b

GetSize ==
    [rows |-> Floor(lastHeightInPixels, fontHeightInPixels),
     cols |-> Floor(lastWidthInPixels, fontWidthInPixels)]

StrictEq(a, b) == a # NaN /\ b # NaN /\ a = b

(* The geometry _resizeInternal works with: the configured override, or    *)
(* the values it was called with.                                          *)
EffectiveRows(r) == IF fixedSize.has THEN fixedSize.rows ELSE r
EffectiveCols(c) == IF fixedSize.has THEN fixedSize.columns ELSE c

SameGeometry(r, c) == StrictEq(r, rows) /\ StrictEq(c, cols)

ResizeArgsRowsFirst(r, c) == <<r, c>>

ResizeArgs(r, c) == <<c, r>>

ResizeRequest(args) == Request("nvim_ui_try_resize", args, "resize", 0)

ResizeInternal(r0, c0) ==
    LET r == EffectiveRows(r0)
        c == EffectiveCols(c0)
    IN  IF SameGeometry(r, c)
        THEN UNCHANGED <<rows, cols, thenQueue, requests>>
        ELSE /\ rows' = r
             /\ cols' = c
             /\ CASE initPromise = "undefined" ->
                        UNCHANGED <<thenQueue, requests>>
                  [] initPromise = "pending" ->
                        /\ thenQueue' = Append(thenQueue, ResizeArgs(r, c))
                        /\ UNCHANGED requests
                  [] initPromise = "resolved" ->
                        /\ requests' = Append(requests, ResizeRequest(ResizeArgs(r, c)))
                        /\ UNCHANGED thenQueue
                  [] initPromise = "rejected" ->
                        UNCHANGED <<thenQueue, requests>>

(* What a resize() call saw and was asked: kept to state its contract.     *)
ResizeRecord(w, h, size) ==
    [called |-> TRUE, width |-> w, height |-> h,
     floorRows |-> size.rows, floorCols |-> size.cols,
     prevRows |-> rows, prevCols |-> cols,
     prevRequests |-> Len(requests), prevQueue |-> Len(thenQueue),
     prevEmitted |-> Len(emitted), init |-> initPromise]

NoResize ==
    [called |-> FALSE, width |-> 0, height |-> 0, floorRows |-> 0, floorCols |-> 0,
     prevRows |-> 0, prevCols |-> 0, prevRequests |-> 0, prevQueue |-> 0,
     prevEmitted |-> 0, init |-> "undefined"]

(* A resize that measures with the metrics held before the call. *)
ResizeBodyStale(w, h, fw, fh) ==
    LET size == [rows |-> Floor(h, fontHeightInPixels),
                 cols |-> Floor(w, fontWidthInPixels)]
    IN  /\ lastWidthInPixels' = w
        /\ lastHeightInPixels' = h
        /\ lastResize' = ResizeRecord(w, h, size)
        /\ ResizeInternal(size.rows, size.cols)

ResizeBody(w, h, fw, fh) ==
    LET size == [rows |-> Floor(h, fh), cols |-> Floor(w, fw)]
    IN  /\ lastWidthInPixels' = w
        /\ lastHeightInPixels' = h
        /\ lastResize' = ResizeRecord(w, h, size)
        /\ ResizeInternal(size.rows, size.cols)

Resize(w, h) ==
    /\ geomOps < MaxGeomOps
    /\ geomOps' = geomOps + 1
    /\ ResizeBody(w, h, fontWidthInPixels, fontHeightInPixels)
    /\ UNCHANGED <<fontWidthInPixels, fontHeightInPixels, emitted>>
    /\ UNCHANGED <<lifecycleVars, versionVars, notifyVars, fixedSize>>

(* measureFont is external: width and height + linePadding are inputs.     *)
SetFont(width, height) ==
    /\ geomOps < MaxGeomOps
    /\ geomOps' = geomOps + 1
    /\ fontWidthInPixels' = width
    /\ fontHeightInPixels' = height
    /\ emitted' = Append(emitted, Emit("action", "SET_FONT", 0, 0, <<width, height>>))
    /\ ResizeBody(lastWidthInPixels, lastHeightInPixels, width, height)
    /\ UNCHANGED <<lifecycleVars, versionVars, notifyVars, fixedSize>>

----------------------------------------------------------------------------
(* start(): startNeovim(...).then(register handlers; _attachUI(...)        *)
(*   .then(set title; OniConnect, _onError)).                              *)

RECURSIVE QueuedRequests(_)
QueuedRequests(q) ==
    IF q = <<>> THEN <<>>
    ELSE <<ResizeRequest(Head(q))>> \o QueuedRequests(Tail(q))

(* _initPromise settles: the callbacks _resizeInternal registered on it    *)
(* run, in order, when it is fulfilled, and never when it is rejected.     *)
SettleInit(outcome, reqs) ==
    /\ initPromise' = outcome
    /\ startPc' = "done"
    /\ thenQueue' = <<>>
    /\ requests' = IF outcome = "resolved" THEN reqs \o QueuedRequests(thenQueue) ELSE reqs

(* The rejection handler of _attachUI(...).then(..., err => _onError(err)) *)
(* returns normally, which fulfils the promise start() returns.            *)
AttachRejectedOutcome == "resolved"

Start ==
    /\ initPromise = "undefined"
    /\ initPromise' = "pending"
    /\ startPc' = "spawn"
    /\ UNCHANGED <<neovim, geometryVars, versionVars, notifyVars, fixedSize,
                   thenQueue, requests, emitted>>

SpawnResolved ==
    /\ startPc = "spawn"
    /\ neovim' = TRUE
    /\ rows' = GetSize.rows
    /\ cols' = GetSize.cols
    /\ requests' = Append(requests, Request("nvim_get_api_info", <<>>, "start", 0))
    /\ startPc' = "apiInfo"
    /\ UNCHANGED <<initPromise, fontWidthInPixels, fontHeightInPixels,
                   lastWidthInPixels, lastHeightInPixels, geomOps, lastResize,
                   versionVars, notifyVars, fixedSize, thenQueue, emitted>>

SpawnRejected ==
    /\ startPc = "spawn"
    /\ SettleInit("rejected", requests)
    /\ UNCHANGED <<neovim, geometryVars, versionVars, notifyVars, fixedSize, emitted>>

ApiInfoResolved(v) ==
    \E k \in 1..Len(requests) :
        /\ startPc = "apiInfo"
        /\ IsPending(k, "start")
        /\ LET options == GetStartupOptionsForVersion(v[1], v[2], v[3])
           IN  /\ startupOptions' = options
               /\ IF options = Unsupported
                  THEN /\ emitted' = Append(emitted, OnError("Unsupported version of Neovim.", 0))
                       /\ SettleInit(AttachRejectedOutcome, Settle(k, "ok"))
                  ELSE /\ requests' = Append(Settle(k, "ok"),
                                Request("nvim_ui_attach", <<cols, rows, options>>, "start", 0))
                       /\ startPc' = "attach"
                       /\ UNCHANGED <<initPromise, thenQueue, emitted>>
        /\ UNCHANGED <<neovim, geometryVars, version, notifyVars, fixedSize>>

(* A request of the start chain fails: nvim_get_api_info and               *)
(* nvim_ui_attach reject _attachUI, which the rejection handler turns into *)
(* an Error; set title and OniConnect reject the promise start() returns.  *)
StartRequestFailed ==
    \E k \in 1..Len(requests) :
        /\ IsPending(k, "start")
        /\ IF startPc \in {"apiInfo", "attach"}
           THEN /\ emitted' = Append(emitted, OnError(requests[k].method, 0))
                /\ SettleInit(AttachRejectedOutcome, Settle(k, "failed"))
           ELSE /\ SettleInit("rejected", Settle(k, "failed"))
                /\ UNCHANGED emitted
        /\ UNCHANGED <<neovim, geometryVars, versionVars, notifyVars, fixedSize>>

(* "set title" and "OniConnect" issued together, neither awaited. *)
AttachResolvedNoAwait ==
    \E k \in 1..Len(requests) :
        /\ startPc = "attach"
        /\ IsPending(k, "start")
        /\ requests' = Settle(k, "ok")
                           \o <<Request("nvim_command", <<"set title">>, "start", 0),
                                Request("nvim_call_function", <<"OniConnect">>, "start", 0)>>
        /\ startPc' = "setTitle"
        /\ UNCHANGED <<initPromise, neovim, geometryVars, versionVars, notifyVars,
                       fixedSize, thenQueue, emitted>>

AttachResolved ==
    \E k \in 1..Len(requests) :
        /\ startPc = "attach"
        /\ IsPending(k, "start")
        /\ requests' = Append(Settle(k, "ok"),
                              Request("nvim_command", <<"set title">>, "start", 0))
        /\ startPc' = "setTitle"
        /\ UNCHANGED <<initPromise, neovim, geometryVars, versionVars, notifyVars,
                       fixedSize, thenQueue, emitted>>

SetTitleResolved ==
    \E k \in 1..Len(requests) :
        /\ startPc = "setTitle"
        /\ IsPending(k, "start")
        /\ requests' = Append(Settle(k, "ok"),
                              Request("nvim_call_function", <<"OniConnect">>, "start", 0))
        /\ startPc' = "oniConnect"
        /\ UNCHANGED <<initPromise, neovim, geometryVars, versionVars, notifyVars,
                       fixedSize, thenQueue, emitted>>

OniConnectResolved ==
    \E k \in 1..Len(requests) :
        /\ startPc = "oniConnect"
        /\ IsPending(k, "start")
        /\ SettleInit("resolved", Settle(k, "ok"))
        /\ UNCHANGED <<neovim, geometryVars, versionVars, notifyVars, fixedSize, emitted>>

----------------------------------------------------------------------------
(* The redraw interpreter: _handleNotification.                            *)
(* A command of the payload is <<name, tuple, tuple, ...>>; a is the list  *)
(* of its argument tuples (a.slice(1)).                                    *)

FirstTuple(a) == a[1]

LastTupleIsFirst(a) == a[1]

LastTuple(a) == a[Len(a)]

FirstTupleCommands ==
    {"cursor_goto", "set_scroll_region", "scroll", "resize", "set_title",
     "update_bg", "update_fg", "popupmenu_select", "popupmenu_show",
     "tabline_update"}

LastTupleCommands == {"highlight_set", "mode_change"}

(* a[0] and a[a.length - 1] are undefined when the command has no tuple:   *)
(* reading a field of it throws a TypeError.                               *)
Throws(command, a) ==
    /\ command \in FirstTupleCommands \cup LastTupleCommands
    /\ Len(a) = 0

(* !!x *)
ToBool(x) == x # NaN /\ x # 0

SetHighlight(info) ==
    <<ToBool(info.bold), ToBool(info.italic), ToBool(info.reverse),
      ToBool(info.underline), ToBool(info.undercurl), info.foreground,
      info.background>>

MapItems(items) ==
    [k \in 1..Len(items) |->
        [word |-> items[k][1], kind |-> items[k][2],
         menu |-> items[k][3], info |-> items[k][4]]]

MapTabs(tabs) ==
    [k \in 1..Len(tabs) |-> [id |-> tabs[k].tab.id, name |-> tabs[k].name]]

(* Every character read from the first tuple. *)
PutCharactersFirstOnly(a) == [k \in 1..Len(a) |-> a[1][1]]

PutCharacters(a) == [k \in 1..Len(a) |-> a[k][1]]

Out(ch, type, val) == [ch |-> ch, type |-> type, val |-> val]

(* What the default branch of the switch emits: it only logs a warning.    *)
UnhandledCommandIsError(command) == <<Out("onError", "Unhandled command", <<>>)>>

UnhandledCommand(command) == <<>>

(* The emissions of one command that does not throw, in order. *)
CommandOutput(command, a) ==
    CASE command = "cursor_goto" ->
            <<Out("action", "CURSOR_GOTO", <<FirstTuple(a)[1], FirstTuple(a)[2]>>)>>
      [] command = "put" ->
            <<Out("action", "PUT", <<PutCharacters(a)>>)>>
      [] command = "set_scroll_region" ->
            <<Out("action", "SET_SCROLL_REGION",
                  <<FirstTuple(a)[1], FirstTuple(a)[2], FirstTuple(a)[3], FirstTuple(a)[4]>>)>>
      [] command = "scroll" ->
            <<Out("action", "SCROLL", <<FirstTuple(a)[1]>>)>>
      [] command = "highlight_set" ->
            <<Out("action", "SET_HIGHLIGHT", SetHighlight(LastTuple(a)[1]))>>
      [] command = "resize" ->
            <<Out("action", "RESIZE", <<FirstTuple(a)[1], FirstTuple(a)[2]>>)>>
      [] command = "set_title" ->
            <<Out("set-title", "set-title", <<FirstTuple(a)[1]>>)>>
      [] command = "set_icon" -> <<>>
      [] command = "eol_clear" ->
            <<Out("action", "CLEAR_TO_END_OF_LINE", <<>>)>>
      [] command = "clear" ->
            <<Out("action", "CLEAR", <<>>)>>
      [] command = "mouse_on" -> <<>>
      [] command = "update_bg" ->
            <<Out("action", "UPDATE_BG", <<FirstTuple(a)[1]>>)>>
      [] command = "update_fg" ->
            <<Out("action", "UPDATE_FG", <<FirstTuple(a)[1]>>)>>
      [] command = "mode_change" ->
            <<Out("action", "CHANGE_MODE", <<LastTuple(a)[1]>>),
              Out("onModeChanged", "onModeChanged", <<LastTuple(a)[1]>>)>>
      [] command = "popupmenu_select" ->
            <<Out("onSelectPopupMenu", "onSelectPopupMenu", <<FirstTuple(a)[1]>>)>>
      [] command = "popupmenu_hide" ->
            <<Out("onHidePopupMenu", "onHidePopupMenu", <<>>)>>
      [] command = "popupmenu_show" ->
            <<Out("onShowPopupMenu", "onShowPopupMenu",
                  <<[items |-> MapItems(FirstTuple(a)[1]),
                     selectedIndex |-> FirstTuple(a)[2],
                     row |-> FirstTuple(a)[3],
                     col |-> FirstTuple(a)[4]]>>)>>
      [] command = "tabline_update" ->
            <<Out("tabline-update", "tabline-update",
                  <<FirstTuple(a)[1].id, MapTabs(FirstTuple(a)[2])>>)>>
      [] command = "bell" -> <<>>   \* plays a sound when one is configured
      [] OTHER -> UnhandledCommand(command)

Tag(outs, n, i) ==
    [k \in 1..Len(outs) |-> Emit(outs[k].ch, outs[k].type, n, i, outs[k].val)]

(* args.forEach(...) from command i on: the emissions, the index of the    *)
(* command that threw (0 when none did; the exception ends the loop), and  *)
(* the number of _dispatchScrollEvent calls.                               *)
RECURSIVE ForEach(_, _, _)
ForEach(args, i, n) ==
    IF i > Len(args)
    THEN [out |-> <<>>, threw |-> 0, scrolls |-> 0]
    ELSE LET command == args[i][1]
             a == Tail(args[i])
         IN  IF Throws(command, a)
             THEN [out |-> <<>>, threw |-> i, scrolls |-> 0]
             ELSE LET rest == ForEach(args, i + 1, n)
                  IN  [out |-> Tag(CommandOutput(command, a), n, i) \o rest.out,
                       threw |-> rest.threw,
                       scrolls |-> rest.scrolls + (IF command = "scroll" THEN 1 ELSE 0)]

(* The emissions of the payload, last to first. *)
HandleNotificationReversed(args, n) ==
    LET res == ForEach(args, 1, n)
    IN  [res EXCEPT !.out = [k \in 1..Len(res.out) |-> res.out[Len(res.out) + 1 - k]]]

HandleNotification(args, n) == ForEach(args, 1, n)

RedrawComplete(n) == <<Emit("onRedrawComplete", "onRedrawComplete", n, 0, <<>>)>>

(* _dispatchScrollEvent, called once per scroll command: only the first    *)
(* call with no pending timeout schedules the timer.                       *)
(* Every call schedules a timer. *)
SchedulesEveryCall(calls, pending) == calls

(* The timers that `calls` successive calls schedule when the slot holds   *)
(* `pending` before the first of them.                                     *)
Schedules(calls, pending) == IF calls > 0 /\ pending = 0 THEN 1 ELSE 0

DispatchScrollEvent(calls) ==
    /\ scrollTimers' = scrollTimers + Schedules(calls, pendingScrollTimeout)
    /\ pendingScrollTimeout' = IF Schedules(calls, pendingScrollTimeout) > 0
                               THEN 1
                               ELSE pendingScrollTimeout

----------------------------------------------------------------------------
(* The buffer synchronizer and the plugin-notification router.             *)

MAX_LINES_FOR_BUFFER_UPDATE == 5000

ReachesCeiling(endRange) == endRange >= MAX_LINES_FOR_BUFFER_UPDATE

ExceedsCeiling(endRange) == endRange > MAX_LINES_FOR_BUFFER_UPDATE

GetLinesArgs(context, startRange, endRange) ==
    <<context.bufferNumber, startRange - 1, endRange, FALSE>>

(* _onFullBufferUpdate up to its await: the requests it issues. *)
OnFullBufferUpdate(context, startRange, endRange, n) ==
    IF ExceedsCeiling(endRange)
    THEN <<>>
    ELSE <<RequestWith("nvim_buf_get_lines", GetLinesArgs(context, startRange, endRange),
                       "fetch", n, context)>>

IncrementalUpdateSwapped(a0) ==
    [context |-> a0[1], lineNumber |-> a0[2], lineContents |-> a0[3]]

IncrementalUpdate(a0) ==
    [context |-> a0[1], lineNumber |-> a0[3], lineContents |-> a0[2]]

(* What the final else of the plugin router and of the notification        *)
(* handler emit: they only log a warning.                                  *)
UnknownPluginMethod(pluginMethod) == <<>>

UnknownNotification(method) == <<>>

Effect(out, reqs, leaving) == [out |-> out, reqs |-> reqs, leaving |-> leaving]

(* Forwarding only the events without an effect of their own. *)
ForwardUnlessSpecial(eventName, eventContext, n) ==
    IF eventName \in {"DirChanged", "VimLeave"}
    THEN <<>>
    ELSE <<Emit("autocommand", eventName, n, 0, <<eventContext>>),
           Emit("event", eventName, n, 0, <<eventContext>>)>>

(* The two statements that end the "event" branch. *)
Forward(eventName, eventContext, n) ==
    <<Emit("autocommand", eventName, n, 0, <<eventContext>>),
      Emit("event", eventName, n, 0, <<eventContext>>)>>

(* pluginArgs.shift() removes the sub-method from args[0] in place: a0 is  *)
(* args[0] as the branches read it.                                        *)
Route(pluginMethod, a0, n) ==
    CASE pluginMethod = "buffer_update" ->
            Effect(<<>>, OnFullBufferUpdate(a0[1], a0[2], a0[3], n), FALSE)
      [] pluginMethod = "oni_yank" ->
            Effect(<<Emit("onYank", "onYank", n, 0, <<a0[1]>>)>>, <<>>, FALSE)
      [] pluginMethod = "oni_command" ->
            Effect(<<Emit("onOniCommand", "onOniCommand", n, 0, <<a0[1]>>)>>, <<>>, FALSE)
      [] pluginMethod = "event" ->
            Effect((IF a0[1] = "VimLeave"
                    THEN <<Emit("onLeave", "onLeave", n, 0, <<>>)>>
                    ELSE <<>>)
                   \o Forward(a0[1], a0[2], n),
                   IF a0[1] = "DirChanged"
                   THEN <<Request("nvim_eval", <<"getcwd()">>, "cwd", n)>>
                   ELSE <<>>,
                   a0[1] = "VimLeave")
      [] pluginMethod = "incremental_buffer_update" ->
            Effect(<<Emit("onBufferUpdateIncremental", "onBufferUpdateIncremental", n, 0,
                          <<IncrementalUpdate(a0)>>)>>, <<>>, FALSE)
      [] OTHER ->
            Effect(UnknownPluginMethod(pluginMethod), <<>>, FALSE)

ItemsOf(t) == IF t.method = "redraw" /\ Len(t.args) > 0 THEN Len(t.args) ELSE 1

RECURSIVE ItemsUsed(_)
ItemsUsed(ts) == IF ts = <<>> THEN 0 ELSE ItemsOf(Head(ts)) + ItemsUsed(Tail(ts))

Delivered(method, args, threw) == [method |-> method, args |-> args, threw |-> threw]

(* The handler of the transport's "notification" event. *)
OnNotification(method, args) ==
    LET n == Len(notifs) + 1
    IN  /\ neovim
        /\ ItemsUsed(notifs) + ItemsOf([method |-> method, args |-> args]) <= MaxItems
        /\ IF method = "redraw"
           THEN LET res == HandleNotification(args, n)
                IN  /\ emitted' = emitted \o res.out
                                     \o (IF res.threw = 0 THEN RedrawComplete(n) ELSE <<>>)
                    /\ DispatchScrollEvent(res.scrolls)
                    /\ notifs' = Append(notifs, Delivered(method, args, res.threw))
                    /\ UNCHANGED <<isLeaving, requests>>
           ELSE IF method = "oni_plugin_notify"
           THEN LET eff == Route(Head(args[1]), Tail(args[1]), n)
                IN  /\ emitted' = emitted \o eff.out
                    /\ requests' = requests \o eff.reqs
                    /\ isLeaving' = (isLeaving \/ eff.leaving)
                    /\ notifs' = Append(notifs, Delivered(method, args, 0))
                    /\ UNCHANGED <<pendingScrollTimeout, scrollTimers>>
           ELSE /\ emitted' = emitted \o UnknownNotification(method)
                /\ notifs' = Append(notifs, Delivered(method, args, 0))
                /\ UNCHANGED <<isLeaving, requests, pendingScrollTimeout, scrollTimers>>
        /\ UNCHANGED <<lifecycleVars, geometryVars, versionVars, fixedSize, thenQueue,
                       disconnected>>

----------------------------------------------------------------------------
(* Continuations of the requests the handlers await. *)

(* window.setTimeout callback of _dispatchScrollEvent, up to its await. *)
ScrollTimerFired ==
    /\ scrollTimers > 0
    /\ scrollTimers' = scrollTimers - 1
    /\ requests' = Append(requests,
                          Request("nvim_call_function", <<"OniGetContext">>, "context", 0))
    /\ UNCHANGED <<lifecycleVars, geometryVars, versionVars, fixedSize, thenQueue,
                   emitted, notifs, isLeaving, pendingScrollTimeout, disconnected>>

ContextResolved(evt) ==
    \E k \in 1..Len(requests) :
        /\ IsPending(k, "context")
        /\ requests' = Settle(k, "ok")
        /\ emitted' = Append(emitted, Emit("onScroll", "onScroll", 0, 0, <<evt>>))
        /\ pendingScrollTimeout' = 0
        /\ UNCHANGED <<lifecycleVars, geometryVars, versionVars, fixedSize, thenQueue,
                       notifs, isLeaving, scrollTimers, disconnected>>

FullUpdate(context, bufferLines) == [context |-> context, bufferLines |-> bufferLines]

(* The context of the most recent trigger, whichever fetch returned. *)
LatestContext(k) ==
    LET triggers == {j \in 1..Len(requests) : requests[j].src = "fetch"}
    IN  requests[CHOOSE j \in triggers : \A l \in triggers : l <= j].ctx

(* The context parameter of the _onFullBufferUpdate call that awaits       *)
(* request k.                                                              *)
CapturedContext(k) == requests[k].ctx

FetchResolved(bufferLines) ==
    \E k \in 1..Len(requests) :
        /\ IsPending(k, "fetch")
        /\ requests' = SettleWith(k, "ok", bufferLines)
        /\ emitted' = Append(emitted,
                             Emit("onBufferUpdate", "onBufferUpdate", requests[k].n, 0,
                                  <<FullUpdate(CapturedContext(k), bufferLines)>>))
        /\ UNCHANGED <<lifecycleVars, geometryVars, versionVars, fixedSize, thenQueue,
                       notifyVars>>

(* path.normalize, as far as the model's paths need it: "." segments go. *)
RECURSIVE Normalize(_)
Normalize(dir) ==
    IF dir = <<>> THEN <<>>
    ELSE IF Head(dir) = "." THEN Normalize(Tail(dir))
    ELSE <<Head(dir)>> \o Normalize(Tail(dir))

CwdResolved(dir) ==
    \E k \in 1..Len(requests) :
        /\ IsPending(k, "cwd")
        /\ requests' = Settle(k, "ok")
        /\ emitted' = Append(emitted,
                             Emit("onDirectoryChanged", "onDirectoryChanged",
                                  requests[k].n, 0, <<Normalize(dir)>>))
        /\ UNCHANGED <<lifecycleVars, geometryVars, versionVars, fixedSize, thenQueue,
                       notifyVars>>

(* What the instance emits when a request awaited by _onFullBufferUpdate,  *)
(* _updateProcessDirectory or the scroll timer callback fails: the         *)
(* rejection of these async functions is handled nowhere.                  *)
UnhandledRejection(request) == <<>>

(* The awaiting function ends with the exception: nothing after the await  *)
(* runs (the scroll timer callback does not clear _pendingScrollTimeout).  *)
RequestFailed ==
    \E k \in 1..Len(requests) :
        /\ requests[k].status = "pending"
        /\ requests[k].src \in {"fetch", "cwd", "context"}
        /\ requests' = Settle(k, "failed")
        /\ emitted' = emitted \o UnhandledRejection(requests[k])
        /\ UNCHANGED <<lifecycleVars, geometryVars, versionVars, fixedSize, thenQueue,
                       notifyVars>>

(* The handler of the transport's "error" event. *)
SessionError ==
    /\ neovim
    /\ ItemsUsed(notifs) < MaxItems
    /\ notifs' = Append(notifs, Delivered("error", <<>>, 0))
    /\ emitted' = Append(emitted, OnError("session", Len(notifs) + 1))
    /\ UNCHANGED <<lifecycleVars, geometryVars, versionVars, fixedSize, thenQueue,
                   requests, isLeaving, pendingScrollTimeout, scrollTimers, disconnected>>

(* A disconnect handler that reports the Error whatever _isLeaving holds. *)
DisconnectAlwaysErrors ==
    /\ neovim
    /\ disconnected = 0
    /\ disconnected' = Len(notifs) + 1
    /\ emitted' = Append(emitted, OnError("Neovim disconnected.", 0))
    /\ UNCHANGED <<lifecycleVars, geometryVars, versionVars, fixedSize, thenQueue,
                   requests, notifs, isLeaving, pendingScrollTimeout, scrollTimers>>

(* The handler of the transport's "disconnect" event. *)
Disconnect ==
    /\ neovim
    /\ disconnected = 0
    /\ disconnected' = Len(notifs) + 1
    /\ emitted' = IF ~isLeaving
                  THEN Append(emitted, OnError("Neovim disconnected.", 0))
                  ELSE emitted
    /\ UNCHANGED <<lifecycleVars, geometryVars, versionVars, fixedSize, thenQueue,
                   requests, notifs, isLeaving, pendingScrollTimeout, scrollTimers>>

----------------------------------------------------------------------------
(* The inputs. *)

RedrawNames ==
    {"cursor_goto", "put", "set_scroll_region", "scroll", "highlight_set", "resize",
     "set_title", "set_icon", "eol_clear", "clear", "mouse_on", "update_bg",
     "update_fg", "mode_change", "popupmenu_select", "popupmenu_hide",
     "popupmenu_show", "tabline_update", "bell", "mouse_off"}

KnownNames == RedrawNames \ {"mouse_off"}

(* The j-th argument tuple of a well-formed command: tuples at different   *)
(* positions differ in every field.                                        *)
TupleFor(name, j) ==
    CASE name \in {"cursor_goto", "resize", "put"} -> <<j, j + MaxArg>>
      [] name = "set_scroll_region" -> <<j, j + 1, j + 2, j + 3>>
      [] name = "highlight_set" ->
            <<[bold |-> j % 2, italic |-> (j + 1) % 2,
               reverse |-> IF j = 1 THEN NaN ELSE 1,
               underline |-> IF j = 1 THEN 1 ELSE NaN,
               undercurl |-> j % 2, foreground |-> j, background |-> j + MaxArg]>>
      [] name = "popupmenu_show" -> <<<< <<j, j + 1, j + 2, j + 3>> >>, j, j + 1, j + 2>>
      [] name = "tabline_update" ->
            <<[id |-> j], <<[tab |-> [id |-> j], name |-> j + 1]>> >>
      [] OTHER -> <<j>>

ArgList(name, len) == [j \in 1..len |-> TupleFor(name, j)]

Commands == {<<name>> \o ArgList(name, len) : name \in RedrawNames, len \in 0..MaxArg}

Payloads(maxLen) == UNION {[1..m -> Commands] : m \in 0..maxLen}

Contexts == {[bufferNumber |-> b] : b \in 1..MaxArg}

EndRanges == (MAX_LINES_FOR_BUFFER_UPDATE - 1)..(MAX_LINES_FOR_BUFFER_UPDATE + 1)

EventNames == {"DirChanged", "VimLeave", "BufEnter"}

BufferLines == {<<>>} \cup {<<x>> : x \in 1..MaxArg}

Directories == {<<"a">>, <<"a", ".", "b">>}

FixedSizes ==
    {[has |-> FALSE, rows |-> 0, columns |-> 0], [has |-> TRUE, rows |-> 1, columns |-> 2]}

RedrawNotification ==
    \E args \in Payloads(MaxItems - ItemsUsed(notifs)) : OnNotification("redraw", args)

BufferUpdateNotification ==
    \E c \in Contexts, s \in 1..MaxArg, e \in EndRanges :
        OnNotification("oni_plugin_notify", << <<"buffer_update", c, s, e>> >>)

IncrementalNotification ==
    \E c \in Contexts, l \in 1..MaxArg, x \in 1..MaxArg :
        OnNotification("oni_plugin_notify", << <<"incremental_buffer_update", c, x, l + MaxArg>> >>)

YankNotification ==
    \E x \in 1..MaxArg : OnNotification("oni_plugin_notify", << <<"oni_yank", x>> >>)

CommandNotification ==
    \E x \in 1..MaxArg : OnNotification("oni_plugin_notify", << <<"oni_command", x>> >>)

EventNotification ==
    \E e \in EventNames, c \in Contexts :
        OnNotification("oni_plugin_notify", << <<"event", e, c>> >>)

UnknownPluginNotification ==
    \E x \in 1..MaxArg : OnNotification("oni_plugin_notify", << <<"oni_unknown", x>> >>)

UnknownTopLevelNotification ==
    \E x \in 1..MaxArg : OnNotification("oni_unknown_method", <<x>>)

----------------------------------------------------------------------------
(* Specifications. *)

(* The instance as constructed. *)
Init ==
    /\ initPromise = "undefined"
    /\ startPc = "idle"
    /\ neovim = FALSE
    /\ isLeaving = FALSE
    /\ fontWidthInPixels = NaN
    /\ fontHeightInPixels = NaN
    /\ lastWidthInPixels \in Pixels
    /\ lastHeightInPixels \in Pixels
    /\ rows = NaN
    /\ cols = NaN
    /\ fixedSize \in FixedSizes
    /\ thenQueue = <<>>
    /\ requests = <<>>
    /\ emitted = <<>>
    /\ notifs = <<>>
    /\ pendingScrollTimeout = 0
    /\ scrollTimers = 0
    /\ disconnected = 0
    /\ version = <<>>
    /\ startupOptions = {}
    /\ geomOps = 0
    /\ lastResize = NoResize

(* start, the geometry coordinator and the transport's answers to start. *)
Next ==
    \/ Start
    \/ SpawnResolved
    \/ SpawnRejected
    \/ \E v \in Versions : ApiInfoResolved(v)
    \/ StartRequestFailed
    \/ AttachResolved
    \/ SetTitleResolved
    \/ OniConnectResolved
    \/ \E w \in Pixels, h \in Pixels : Resize(w, h)
    \/ \E w \in FontMetrics, h \in FontMetrics : SetFont(w, h)

Spec == Init /\ [][Next]_vars

(* The attach negotiator's policy on its own. *)
ClassifyVersion(v) ==
    /\ version' = v
    /\ startupOptions' = GetStartupOptionsForVersion(v[1], v[2], v[3])
    /\ UNCHANGED <<lifecycleVars, geometryVars, notifyVars, fixedSize, thenQueue,
                   requests, emitted>>

NextVersion == \E v \in Versions : ClassifyVersion(v)

SpecVersion == Init /\ [][NextVersion]_vars

(* The state after setFont(1, 1) on an instance of 3 x 2 pixels and a      *)
(* start() that went through: the handlers are registered and the UI is    *)
(* attached.                                                               *)
StartedRequests ==
    <<[Request("nvim_get_api_info", <<>>, "start", 0) EXCEPT !.status = "ok"],
      [Request("nvim_ui_attach", <<3, 2, {"rgb", "popupmenu_external", "ext_tabline"}>>,
               "start", 0) EXCEPT !.status = "ok"],
      [Request("nvim_command", <<"set title">>, "start", 0) EXCEPT !.status = "ok"],
      [Request("nvim_call_function", <<"OniConnect">>, "start", 0) EXCEPT !.status = "ok"]>>

InitStarted ==
    /\ initPromise = "resolved"
    /\ startPc = "done"
    /\ neovim = TRUE
    /\ isLeaving = FALSE
    /\ fontWidthInPixels = 1
    /\ fontHeightInPixels = 1
    /\ lastWidthInPixels = 3
    /\ lastHeightInPixels = 2
    /\ rows = 2
    /\ cols = 3
    /\ fixedSize = [has |-> FALSE, rows |-> 0, columns |-> 0]
    /\ thenQueue = <<>>
    /\ requests = StartedRequests
    /\ emitted = <<Emit("action", "SET_FONT", 0, 0, <<1, 1>>)>>
    /\ notifs = <<>>
    /\ pendingScrollTimeout = 0
    /\ scrollTimers = 0
    /\ disconnected = 0
    /\ version = <<>>
    /\ startupOptions = {"rgb", "popupmenu_external", "ext_tabline"}
    /\ geomOps = 1
    /\ lastResize = [called |-> TRUE, width |-> 3, height |-> 2, floorRows |-> 2,
                     floorCols |-> 3, prevRows |-> NaN, prevCols |-> NaN,
                     prevRequests |-> 0, prevQueue |-> 0, prevEmitted |-> 0,
                     init |-> "undefined"]

(* The transport's events on a started session and the continuations of    *)
(* the requests their handlers issue.                                      *)
NextNotify ==
    \/ RedrawNotification
    \/ BufferUpdateNotification
    \/ IncrementalNotification
    \/ YankNotification
    \/ CommandNotification
    \/ EventNotification
    \/ UnknownPluginNotification
    \/ UnknownTopLevelNotification
    \/ SessionError
    \/ Disconnect
    \/ ScrollTimerFired
    \/ \E evt \in Contexts : ContextResolved(evt)
    \/ \E bufferLines \in BufferLines : FetchResolved(bufferLines)
    \/ \E dir \in Directories : CwdResolved(dir)
    \/ RequestFailed

SpecNotify == InitStarted /\ [][NextNotify]_vars

----------------------------------------------------------------------------
(* Properties. *)

AllOptions == {"rgb", "popupmenu_external", "ext_tabline"}

Classified == version # <<>>

(* C1: the capability set computed for a version (major, minor, patch) has *)
(* ext_tabline exactly when minor >= 2 and patch >= 1; it is rgb and       *)
(* popupmenu_external alone for the other versions with major = 0 and      *)
(* minor = 2; for every other version the computation fails with           *)
(* UnsupportedVersion.                                                     *)
C1_CapabilitySet ==
    Classified =>
        LET major == version[1]
            minor == version[2]
            patch == version[3]
            full == major >= 0 /\ minor >= 2 /\ patch >= 1
            basic == ~full /\ major = 0 /\ minor = 2
        IN  /\ full => startupOptions = AllOptions
            /\ basic => startupOptions = AllOptions \ {"ext_tabline"}
            /\ (~full /\ ~basic) => startupOptions = Unsupported
            /\ (version = <<0, 2, 1>>) => startupOptions = AllOptions
            /\ (version = <<0, 2, 0>>) => startupOptions = {"rgb", "popupmenu_external"}
            /\ (version = <<0, 1, 5>>) => startupOptions = Unsupported

C1_Witness ==
    /\ version = <<0, 2, 0>>
    /\ startupOptions = {"rgb", "popupmenu_external"}

HasError(type) ==
    \E j \in 1..Len(emitted) : emitted[j].ch = "onError" /\ emitted[j].type = type

HasRequest(method) ==
    \E k \in 1..Len(requests) : requests[k].method = method

(* C2: when the engine reports a version that the attach negotiation       *)
(* cannot classify, the promise start() returned is rejected.              *)
C2_StartRejected ==
    (startPc = "done" /\ startupOptions = Unsupported) => initPromise = "rejected"

Redraws == {n \in 1..Len(notifs) : notifs[n].method = "redraw"}

(* The emissions a redraw notification's commands caused, in the order of  *)
(* their emission.                                                         *)
EmittedBy(n) ==
    LET Test(e) == e.n = n /\ e.i > 0
    IN  SelectSeq(emitted, Test)

EmittedByCommand(n, i) ==
    LET Test(e) == e.n = n /\ e.i = i
    IN  SelectSeq(emitted, Test)

(* The commands of notification n that were interpreted: all of them, or   *)
(* those before the one whose handling threw.                              *)
Interpreted(n) ==
    IF notifs[n].threw = 0 THEN 1..Len(notifs[n].args) ELSE 1..(notifs[n].threw - 1)

NameOf(n, i) == notifs[n].args[i][1]

TuplesOf(n, i) == Tail(notifs[n].args[i])

(* C3: the actions and events a redraw notification emits are in the order *)
(* of the commands of its payload: each interpreted command's emissions    *)
(* appear once, commands in payload order, and no emission of another      *)
(* notification lies between them.                                         *)
C3_PayloadOrder ==
    \A n \in Redraws :
        /\ \A j, k \in 1..Len(EmittedBy(n)) :
              j < k => EmittedBy(n)[j].i <= EmittedBy(n)[k].i
        /\ \A i \in 1..Len(notifs[n].args) :
              EmittedByCommand(n, i) =
                  IF i \in Interpreted(n)
                  THEN Tag(CommandOutput(NameOf(n, i), TuplesOf(n, i)), n, i)
                  ELSE <<>>
        /\ \A j, l \in 1..Len(emitted) :
              (j < l /\ emitted[j].n = n /\ emitted[l].n = n) =>
                  \A k \in j..l : emitted[k].n = n

C3_Witness ==
    \E n \in Redraws :
        /\ Len(notifs[n].args) = 2
        /\ notifs[n].threw = 0
        /\ NameOf(n, 1) = "put" /\ Len(TuplesOf(n, 1)) = 2
        /\ NameOf(n, 2) = "cursor_goto"
        /\ Len(EmittedBy(n)) = 2
        /\ EmittedBy(n)[1].type = "PUT" /\ EmittedBy(n)[1].val = << <<1, 2>> >>
        /\ EmittedBy(n)[2].type = "CURSOR_GOTO"

RedrawCompletesOf(n) ==
    {j \in 1..Len(emitted) : emitted[j].ch = "onRedrawComplete" /\ emitted[j].n = n}

(* C4: every redraw notification delivered is followed by exactly one      *)
(* RedrawComplete, dispatched after all its actions, whatever commands its *)
(* payload holds.                                                          *)
C4_RedrawCompleteAlways ==
    \A n \in Redraws :
        /\ Cardinality(RedrawCompletesOf(n)) = 1
        /\ \A j \in RedrawCompletesOf(n), k \in 1..Len(emitted) :
              (emitted[k].n = n /\ emitted[k].i > 0) => k < j

(* C5: a highlight_set or mode_change command with several tuples emits    *)
(* what it would emit with its last tuple alone; a cursor_goto,            *)
(* set_scroll_region, scroll, resize, update_bg, update_fg or              *)
(* popupmenu_show command with several tuples emits what it would emit     *)
(* with its first tuple alone.                                             *)
C5_TupleSelection ==
    \A n \in Redraws : \A i \in Interpreted(n) :
        LET name == NameOf(n, i)
            a == TuplesOf(n, i)
        IN  /\ (name \in {"highlight_set", "mode_change"} /\ Len(a) >= 1) =>
                  EmittedByCommand(n, i) = Tag(CommandOutput(name, <<a[Len(a)]>>), n, i)
            /\ (/\ name \in {"cursor_goto", "set_scroll_region", "scroll", "resize",
                             "update_bg", "update_fg", "popupmenu_show"}
                /\ Len(a) >= 1) =>
                  EmittedByCommand(n, i) = Tag(CommandOutput(name, <<a[1]>>), n, i)

C5_Witness ==
    \E n \in Redraws :
        /\ Len(notifs[n].args) = 2
        /\ notifs[n].threw = 0
        /\ NameOf(n, 1) = "highlight_set" /\ Len(TuplesOf(n, 1)) = 2
        /\ NameOf(n, 2) = "cursor_goto" /\ Len(TuplesOf(n, 2)) = 2
        /\ EmittedBy(n)[1].val[6] = 2
        /\ EmittedBy(n)[2].val = <<1, 1 + MaxArg>>

PluginNotifs(subMethod) ==
    {n \in 1..Len(notifs) :
        /\ notifs[n].method = "oni_plugin_notify"
        /\ notifs[n].args[1][1] = subMethod}

CausedBy(n) == {j \in 1..Len(emitted) : emitted[j].n = n}

RequestsOf(n) == {k \in 1..Len(requests) : requests[k].n = n}

WellFormed(n) ==
    \A i \in 1..Len(notifs[n].args) : ~Throws(NameOf(n, i), TuplesOf(n, i))

(* C6: an unknown redraw command, an unknown oni_plugin_notify sub-method  *)
(* and an unknown notification method emit nothing (no action, no typed    *)
(* event, no Error), issue no request and end no processing: the handling  *)
(* of the payload does not stop at an unknown command, and the commands    *)
(* after it are interpreted.                                               *)
C6_UnknownSkipped ==
    /\ \A n \in Redraws : \A i \in 1..Len(notifs[n].args) :
          NameOf(n, i) \notin KnownNames =>
              /\ EmittedByCommand(n, i) = <<>>
              /\ notifs[n].threw # i
              /\ WellFormed(n) =>
                    /\ Cardinality(RedrawCompletesOf(n)) = 1
                    /\ \A j \in (i + 1)..Len(notifs[n].args) :
                          EmittedByCommand(n, j) =
                              Tag(CommandOutput(NameOf(n, j), TuplesOf(n, j)), n, j)
    /\ \A n \in PluginNotifs("oni_unknown") : CausedBy(n) = {} /\ RequestsOf(n) = {}
    /\ \A n \in 1..Len(notifs) :
          notifs[n].method = "oni_unknown_method" => CausedBy(n) = {} /\ RequestsOf(n) = {}
    /\ \A j \in 1..Len(emitted) :
          emitted[j].ch = "onError" =>
              (emitted[j].n = 0 \/ notifs[emitted[j].n].method = "error")

C6_Witness ==
    /\ \E n \in Redraws :
          /\ Len(notifs[n].args) = 2
          /\ NameOf(n, 1) = "mouse_off"
          /\ NameOf(n, 2) = "clear"
          /\ Len(EmittedBy(n)) = 1
          /\ EmittedBy(n)[1].type = "CLEAR" /\ EmittedBy(n)[1].i = 2

(* C7: a buffer_update(context, startLine, endLine) with endLine <= 5000   *)
(* issues exactly one request, nvim_buf_get_lines for the range            *)
(* [startLine - 1, endLine) of the buffer of context; one with             *)
(* endLine > 5000 issues no request and emits nothing, then or later.      *)
C7_FetchUnderCeiling ==
    \A n \in PluginNotifs("buffer_update") :
        LET context == notifs[n].args[1][2]
            startLine == notifs[n].args[1][3]
            endLine == notifs[n].args[1][4]
        IN  IF endLine <= 5000
            THEN /\ Cardinality(RequestsOf(n)) = 1
                 /\ \A k \in RequestsOf(n) :
                       /\ requests[k].method = "nvim_buf_get_lines"
                       /\ requests[k].args[1] = context.bufferNumber
                       /\ requests[k].args[2] = startLine - 1
                       /\ requests[k].args[3] = endLine
            ELSE /\ RequestsOf(n) = {}
                 /\ CausedBy(n) = {}

C7_Witness ==
    /\ Len(notifs) = 2
    /\ PluginNotifs("buffer_update") = {1, 2}
    /\ notifs[1].args[1][4] = 5000 /\ notifs[1].args[1][3] = 1
    /\ notifs[2].args[1][4] = 5001
    /\ Len(requests) = Len(StartedRequests) + 1
    /\ requests[Len(requests)].args = <<notifs[1].args[1][2].bufferNumber, 0, 5000, FALSE>>

DriverRequests ==
    {k \in 1..Len(requests) : requests[k].src \in {"fetch", "cwd", "context", "start"}}

(* C8: a failed request of the driver (the buffer-range fetch, the         *)
(* working-directory refresh, the context request of the scroll-settled    *)
(* notification, the attach negotiation) has an Error on the Error feed.   *)
C8_FailureSurfaced ==
    \A k \in DriverRequests :
        requests[k].status = "failed" => HasError(requests[k].method)

(* C9: an incremental_buffer_update(context, lineContent, lineNumber)      *)
(* emits, within its handling, exactly one BufferUpdate(Incremental) with  *)
(* that context, lineNumber and lineContent, and issues no request.        *)
C9_IncrementalDirect ==
    \A n \in PluginNotifs("incremental_buffer_update") :
        /\ Cardinality(CausedBy(n)) = 1
        /\ \A j \in CausedBy(n) :
              /\ emitted[j].ch = "onBufferUpdateIncremental"
              /\ emitted[j].val[1].context = notifs[n].args[1][2]
              /\ emitted[j].val[1].lineContents = notifs[n].args[1][3]
              /\ emitted[j].val[1].lineNumber = notifs[n].args[1][4]
        /\ RequestsOf(n) = {}

C9_Witness ==
    \E n \in PluginNotifs("incremental_buffer_update") :
        \E j \in CausedBy(n) :
            /\ emitted[j].val[1].lineNumber = 1 + MaxArg
            /\ emitted[j].val[1].lineContents = 2
            /\ emitted[j].val[1].context.bufferNumber = 1

(* The last resize() call was made on an attached session: nvim_ui_attach  *)
(* had succeeded and the promise of start() was fulfilled.                 *)
ResizedWhileAttached ==
    /\ lastResize.called
    /\ lastResize.init = "resolved"
    /\ \E k \in 1..Len(requests) :
          requests[k].method = "nvim_ui_attach" /\ requests[k].status = "ok"

NothingButPixelSize ==
    /\ Len(requests) = lastResize.prevRequests
    /\ Len(thenQueue) = lastResize.prevQueue
    /\ rows = lastResize.prevRows
    /\ cols = lastResize.prevCols

(* Exactly one request more, nvim_ui_try_resize(cols, rows) with the       *)
(* recorded geometry.                                                      *)
OneResizeRequest ==
    /\ Len(requests) = lastResize.prevRequests + 1
    /\ requests[Len(requests)].method = "nvim_ui_try_resize"
    /\ requests[Len(requests)].args = <<cols, rows>>
    /\ Len(thenQueue) = lastResize.prevQueue

(* C10 as stated: on an attached session, a resize whose floored           *)
(* (rows, cols) equals the applied geometry issues no request and changes  *)
(* nothing but the remembered pixel size; one whose floored (rows, cols)   *)
(* differs issues exactly one nvim_ui_try_resize with (cols, rows), the    *)
(* newly recorded geometry.                                                *)
C10_FlooredGeometry ==
    ResizedWhileAttached =>
        IF /\ StrictEq(lastResize.floorRows, lastResize.prevRows)
           /\ StrictEq(lastResize.floorCols, lastResize.prevCols)
        THEN NothingButPixelSize
        ELSE OneResizeRequest

(* C10, amended: the same of the effective (rows, cols), which is the      *)
(* configured fixed-size override when there is one and the floored values *)
(* otherwise.                                                              *)
C10_EffectiveGeometry ==
    ResizedWhileAttached =>
        LET r == IF fixedSize.has THEN fixedSize.rows ELSE lastResize.floorRows
            c == IF fixedSize.has THEN fixedSize.columns ELSE lastResize.floorCols
        IN  /\ lastWidthInPixels = lastResize.width
            /\ lastHeightInPixels = lastResize.height
            /\ IF StrictEq(r, lastResize.prevRows) /\ StrictEq(c, lastResize.prevCols)
               THEN NothingButPixelSize
               ELSE OneResizeRequest /\ rows = r /\ cols = c

C10_Witness ==
    /\ ResizedWhileAttached
    /\ ~fixedSize.has
    /\ geomOps = 2
    /\ lastResize.prevRows = 1 /\ lastResize.prevCols = 1
    /\ lastResize.width = 3 /\ lastResize.height = 2
    /\ rows = 1 /\ cols = 1
    /\ Len(requests) = lastResize.prevRequests

----------------------------------------------------------------------------
(* Leaving and disconnecting. *)

LeaveEvents == {n \in PluginNotifs("event") : notifs[n].args[1][2] = "VimLeave"}

Leaves == {j \in 1..Len(emitted) : emitted[j].ch = "onLeave"}

DisconnectErrors ==
    {j \in 1..Len(emitted) :
        emitted[j].ch = "onError" /\ emitted[j].type = "Neovim disconnected."}

(* C11: every VimLeave event dispatches exactly one Leave and nothing else *)
(* dispatches one; the leaving flag holds from the first VimLeave on and   *)
(* is never cleared; a disconnect that follows a VimLeave dispatches no    *)
(* Error, a disconnect that no VimLeave preceded dispatches exactly one,   *)
(* and without any VimLeave no Leave is dispatched.                        *)
C11_LeaveSilencesDisconnect ==
    /\ \A n \in LeaveEvents : Cardinality({j \in Leaves : emitted[j].n = n}) = 1
    /\ \A j \in Leaves : emitted[j].n \in LeaveEvents
    /\ isLeaving = (LeaveEvents # {})
    /\ disconnected = 0 => DisconnectErrors = {}
    /\ disconnected # 0 =>
          Cardinality(DisconnectErrors) =
              IF \E n \in LeaveEvents : n < disconnected THEN 0 ELSE 1

C11_Witness ==
    /\ disconnected = 2
    /\ LeaveEvents = {1}
    /\ Cardinality(Leaves) = 1
    /\ DisconnectErrors = {}

(* C12: every nvim_ui_try_resize request is preceded by an nvim_ui_attach  *)
(* request that completed successfully.                                    *)
C12_ResizeOnlyWhenAttached ==
    \A k \in 1..Len(requests) :
        requests[k].method = "nvim_ui_try_resize" =>
            \E j \in 1..(k - 1) :
                requests[j].method = "nvim_ui_attach" /\ requests[j].status = "ok"

----------------------------------------------------------------------------
(* Full buffer updates. *)

FullUpdates == {j \in 1..Len(emitted) : emitted[j].ch = "onBufferUpdate"}

(* C13: a BufferUpdate(Full) carries the context of the buffer_update      *)
(* notification that triggered it and the lines its own fetch returned,    *)
(* in whatever order the fetches return; a trigger produces exactly one    *)
(* BufferUpdate(Full) when its fetch succeeded and none before.            *)
C13_FullUpdateOfItsTrigger ==
    /\ \A j \in FullUpdates : emitted[j].n \in PluginNotifs("buffer_update")
    /\ \A n \in PluginNotifs("buffer_update") :
          LET fulls == {j \in FullUpdates : emitted[j].n = n}
              done == {k \in RequestsOf(n) : requests[k].status = "ok"}
          IN  /\ Cardinality(done) <= 1
              /\ Cardinality(fulls) = Cardinality(done)
              /\ \A j \in fulls :
                    /\ emitted[j].val[1].context = notifs[n].args[1][2]
                    /\ \A k \in done : emitted[j].val[1].bufferLines = requests[k].result

(* Two triggers with different contexts, the second fetch answered first. *)
C13_Witness ==
    /\ PluginNotifs("buffer_update") = {1, 2}
    /\ notifs[1].args[1][2] # notifs[2].args[1][2]
    /\ \E j1, j2 \in FullUpdates :
          /\ j1 < j2
          /\ emitted[j1].n = 2
          /\ emitted[j2].n = 1
          /\ emitted[j1].val[1].bufferLines # emitted[j2].val[1].bufferLines

----------------------------------------------------------------------------
(* The scroll debouncer. *)

ContextRequests == {k \in 1..Len(requests) : requests[k].src = "context"}

(* Scroll-settled notifications under way: timers scheduled and context    *)
(* requests not yet answered.                                              *)
PendingScrolls ==
    scrollTimers + Cardinality({k \in ContextRequests : requests[k].status = "pending"})

ScrollCommands ==
    UNION {{<<n, i>> : i \in {l \in Interpreted(n) : NameOf(n, l) = "scroll"}} :
             n \in Redraws}

ScrollsSettled == {j \in 1..Len(emitted) : emitted[j].ch = "onScroll"}

(* C14: at most one scroll-settled notification is under way at any time,  *)
(* and the slot is held while it is; however many scroll commands arrive,  *)
(* each emits its scroll action, no more timers are scheduled than scroll  *)
(* commands arrived, and each answered context request dispatches exactly  *)
(* one scroll-settled notification.                                        *)
C14_OneScrollPending ==
    /\ PendingScrolls <= 1
    /\ PendingScrolls = 1 => pendingScrollTimeout # 0
    /\ scrollTimers + Cardinality(ContextRequests) <= Cardinality(ScrollCommands)
    /\ ScrollCommands # {} => scrollTimers + Cardinality(ContextRequests) >= 1
    /\ Cardinality(ScrollsSettled) =
          Cardinality({k \in ContextRequests : requests[k].status = "ok"})
    /\ \A c \in ScrollCommands :
          /\ Len(EmittedByCommand(c[1], c[2])) = 1
          /\ EmittedByCommand(c[1], c[2])[1].type = "SCROLL"

C14_Witness ==
    /\ Cardinality(ScrollCommands) = 2
    /\ Cardinality(ScrollsSettled) = 1
    /\ Cardinality(ContextRequests) = 1
    /\ scrollTimers = 0
    /\ pendingScrollTimeout = 0

(* C15: once the timer of a scheduled scroll-settled notification has run  *)
(* and its context request was answered, with a result or with a failure,  *)
(* the debounce slot is free again.                                        *)
C15_SlotReleased ==
    PendingScrolls = 0 => pendingScrollTimeout = 0

----------------------------------------------------------------------------
(* Event forwarding. *)

(* C16: every "event" sub-notification is forwarded exactly once to the    *)
(* autocommand notifier and exactly once to the event sink, with its name  *)
(* and context; for VimLeave the Leave dispatch comes before both and the  *)
(* leaving flag is set, for DirChanged the directory refresh was started.  *)
C16_EventForwardedOnce ==
    \A n \in PluginNotifs("event") :
        LET name == notifs[n].args[1][2]
            context == notifs[n].args[1][3]
            auto == {j \in CausedBy(n) : emitted[j].ch = "autocommand"}
            sink == {j \in CausedBy(n) : emitted[j].ch = "event"}
        IN  /\ Cardinality(auto) = 1
            /\ Cardinality(sink) = 1
            /\ \A j \in auto \cup sink :
                  emitted[j].type = name /\ emitted[j].val = <<context>>
            /\ name = "VimLeave" =>
                  /\ isLeaving
                  /\ \E l \in CausedBy(n) :
                        /\ emitted[l].ch = "onLeave"
                        /\ \A j \in auto \cup sink : l < j
            /\ name = "DirChanged" =>
                  \E k \in RequestsOf(n) : requests[k].method = "nvim_eval"

C16_Witness ==
    \E n \in PluginNotifs("event") :
        \E j \in 1..Len(emitted) :
            /\ notifs[n].args[1][2] = "VimLeave"
            /\ j + 2 <= Len(emitted)
            /\ emitted[j].ch = "onLeave" /\ emitted[j].n = n
            /\ emitted[j + 1].ch = "autocommand" /\ emitted[j + 1].n = n
            /\ emitted[j + 2].ch = "event" /\ emitted[j + 2].n = n

----------------------------------------------------------------------------
(* The recorded geometry. *)

FontSet == fontWidthInPixels # NaN /\ fontHeightInPixels # NaN

(* C17 as stated: once the font metrics are set, the recorded rows and     *)
(* columns are the floored quotients of the pixel size and the metrics.    *)
C17_GeometryIsFloor ==
    FontSet => rows = GetSize.rows /\ cols = GetSize.cols

(* C17, amended: the same when no fixed-size override is configured.       *)
C17_GeometryIsFloorWithoutOverride ==
    (FontSet /\ ~fixedSize.has) => rows = GetSize.rows /\ cols = GetSize.cols

(* A setFont on a started instance that changed the recorded rows. *)
C17_Witness ==
    /\ ~fixedSize.has
    /\ neovim
    /\ lastResize.called
    /\ lastResize.prevRows # NaN
    /\ lastResize.prevRows # rows
    /\ fontWidthInPixels = 2 /\ fontHeightInPixels = 1
    /\ lastWidthInPixels = 3
    /\ rows = lastHeightInPixels /\ cols = 1

(* C18: with a fixed-size override configured, the recorded geometry and   *)
(* the geometry of nvim_ui_attach and of every nvim_ui_try_resize is the   *)
(* override.                                                               *)
C18_OverrideTakesPrecedence ==
    fixedSize.has =>
        /\ rows \in {NaN, fixedSize.rows}
        /\ cols \in {NaN, fixedSize.columns}
        /\ \A k \in 1..Len(requests) :
              /\ requests[k].method = "nvim_ui_attach" =>
                    /\ requests[k].args[1] = fixedSize.columns
                    /\ requests[k].args[2] = fixedSize.rows
              /\ requests[k].method = "nvim_ui_try_resize" =>
                    requests[k].args = <<fixedSize.columns, fixedSize.rows>>

----------------------------------------------------------------------------
(* Characters and the start sequence. *)

(* C19: a put command with k argument tuples emits exactly one put action, *)
(* whose characters are k long, the i-th being the first field of the      *)
(* i-th tuple.                                                             *)
C19_PutCharacters ==
    \A n \in Redraws :
        \A i \in Interpreted(n) :
            NameOf(n, i) = "put" =>
                LET es == EmittedByCommand(n, i)
                    a == TuplesOf(n, i)
                IN  /\ Len(es) = 1
                    /\ es[1].ch = "action"
                    /\ es[1].type = "PUT"
                    /\ Len(es[1].val[1]) = Len(a)
                    /\ \A j \in 1..Len(a) : es[1].val[1][j] = a[j][1]

C19_Witness ==
    \E n \in Redraws :
        /\ Len(notifs[n].args) = 1
        /\ NameOf(n, 1) = "put"
        /\ Len(TuplesOf(n, 1)) = 2
        /\ Len(EmittedByCommand(n, 1)) = 1
        /\ EmittedByCommand(n, 1)[1].val[1] = <<1, 2>>

StartedBefore(k, method) ==
    \E j \in 1..(k - 1) :
        /\ requests[j].src = "start"
        /\ requests[j].method = method
        /\ requests[j].status = "ok"

(* C20: nvim_ui_attach is requested only after nvim_get_api_info answered  *)
(* with a supported version, "set title" only after nvim_ui_attach         *)
(* succeeded, OniConnect only after "set title" succeeded, and no two      *)
(* requests of the start sequence are outstanding together.                *)
C20_StartupOrder ==
    /\ \A k \in 1..Len(requests) :
          requests[k].src = "start" =>
              /\ requests[k].method = "nvim_ui_attach" =>
                    /\ StartedBefore(k, "nvim_get_api_info")
                    /\ startupOptions # Unsupported
                    /\ requests[k].args[3] = startupOptions
              /\ requests[k].method = "nvim_command" =>
                    StartedBefore(k, "nvim_ui_attach")
              /\ requests[k].method = "nvim_call_function" =>
                    StartedBefore(k, "nvim_command")
    /\ Cardinality({k \in 1..Len(requests) :
                       requests[k].src = "start" /\ requests[k].status = "pending"}) <= 1

C20_Witness ==
    /\ initPromise = "resolved"
    /\ Len(requests) >= 4
    /\ \A k \in 1..4 : requests[k].src = "start" /\ requests[k].status = "ok"
    /\ requests[2].method = "nvim_ui_attach"
    /\ requests[3].method = "nvim_command"
    /\ requests[4].method = "nvim_call_function"

----------------------------------------------------------------------------
(* Order of buffer updates, and monotony of the version policy. *)

(* C21: when a buffer_update notification whose fetch succeeded arrived    *)
(* before an incremental_buffer_update notification for the same buffer,   *)
(* its BufferUpdate(Full) is emitted before the BufferUpdate(Incremental)  *)
(* of the latter.                                                          *)
C21_UpdatesInArrivalOrder ==
    \A n1 \in PluginNotifs("buffer_update") :
        \A n2 \in PluginNotifs("incremental_buffer_update") :
            (n1 < n2 /\ notifs[n1].args[1][2].bufferNumber = notifs[n2].args[1][2].bufferNumber) =>
                \A j \in FullUpdates :
                    emitted[j].n = n1 => \A l \in CausedBy(n2) : j < l

LexGreater(w, v) ==
    \/ w[1] > v[1]
    \/ w[1] = v[1] /\ w[2] > v[2]
    \/ w[1] = v[1] /\ w[2] = v[2] /\ w[3] > v[3]

(* C22: when the attach policy accepts the classified version, it accepts  *)
(* every lexicographically greater version, with a capability set that     *)
(* has at least the options of the classified one.                         *)
C22_SupportUpwardClosed ==
    (Classified /\ startupOptions # Unsupported) =>
        \A w \in Versions :
            LexGreater(w, version) =>
                /\ GetStartupOptionsForVersion(w[1], w[2], w[3]) # Unsupported
                /\ startupOptions \subseteq GetStartupOptionsForVersion(w[1], w[2], w[3])

====
